---- MODULE Spec2Model ----
(***************************************************************************)
(* Booking / payment / refund flow of the fitness-platform REST backend.   *)
(* Every request is a process that runs its handler one await at a time;   *)
(* what happens between two awaits is one atomic step (Node event loop).   *)
(* The stores are the Class and Payment collections and the payment        *)
(* gateway (intents, refunds).  Mongoose-managed createdAt/updatedAt and   *)
(* the descriptive fields of the documents (names, prices) are left out.   *)
(***************************************************************************)
EXTENDS Integers, Sequences, FiniteSets, TLC

\* ------------------------------------------------------------------ bounds
MaxCap == 1
MaxBooking == 2
MaxPayments == 2
MaxRefunds == 2
MaxRequested == 1
MaxUsers == 3
MaxPosts == 1
MaxSlots == 2
MaxClock == 3
MaxVotes == 1

Procs == {"r1", "r2"}
ClassIds == {"c1"}
UnknownClass == "c0"
ClassArgs == ClassIds \cup {UnknownClass}
IntentIds == {"pi1", "pi2"}
IntentStatuses == {"requires_payment_method", "succeeded"}
Timestamp == "Date"
NoDoc == [none |-> TRUE]

VARIABLES classes, payments, intents, refunds, confirmed, req, created,
          users, ureq, subscribers, nreq,
          isActive, vreq, slots, posts, freq,
          route, clock, attempts, forwarded, answer

vars == <<classes, payments, intents, refunds, confirmed, req, created,
          users, ureq, subscribers, nreq,
          isActive, vreq, slots, posts, freq,
          route, clock, attempts, forwarded, answer>>

\* The user collection with its requests, and the subscriber collection with its.
userVars == <<users, ureq>>
newsVars == <<subscribers, nreq>>
payVars == <<classes, payments, intents, refunds, confirmed, req, created>>
\* The forum collection with its requests, and one authRateLimit instance
\* with the clock it reads.
forumVars == <<posts, freq>>
limitVars == <<route, clock, attempts, forwarded, answer>>
\* The classes' isActive flags, the requests that read payments, the trainers'
\* slots, the forum and the limiter.
otherVars == <<isActive, vreq, slots, forumVars, limitVars>>
\* What no booking, confirmation or refund handler touches.
elsewhere == <<created, userVars, newsVars, otherVars>>

\* ----------------------------------------------------------- error helpers
validationError == 400
notFoundError == 404
conflictError == 409
serverError == 500

\* ------------------------------------------------------------ Payment model
\* The paths of paymentSchema that the model keeps.
PaymentPaths == {"classId", "paymentIntentId", "paymentStatus", "userEmail"}

\* Mongoose strict mode: paths that the schema does not declare are dropped,
\* in the constructor and in findByIdAndUpdate alike.
StrictCastLoose(obj) == obj

StrictCast(obj) == [f \in (DOMAIN obj) \cap PaymentPaths |-> obj[f]]

\* { ...paymentData, paymentStatus: 'completed' }
NewPayment(paymentData) ==
    StrictCast([f \in (DOMAIN paymentData) \cup {"paymentStatus"} |->
                   IF f = "paymentStatus" THEN "completed" ELSE paymentData[f]])

\* findByIdAndUpdate(id, update): the cast update is merged into the document.
ApplyUpdate(doc, update) ==
    LET u == StrictCast(update)
    IN  [f \in (DOMAIN doc) \cup (DOMAIN u) |->
            IF f \in DOMAIN u THEN u[f] ELSE doc[f]]

RefundUpdateDoc(refundId) ==
    [paymentStatus |-> "refunded", refundId |-> refundId, refundedAt |-> Timestamp]

\* if (payment.paymentStatus === 'refunded') throw ...
AlreadyRefunded(payment) == payment.paymentStatus = "refunded"

\* The error the guard throws.
AlreadyRefundedError == validationError

\* if (paymentIntent.status !== 'succeeded') throw ...
IntentAcceptedAny(status) == TRUE

IntentAccepted(status) == status = "succeeded"

\* ------------------------------------------------------------ Class service
validateClassCapacityOffByOne(store, classId, requestedBookings) ==
    IF classId \notin DOMAIN store THEN notFoundError
    ELSE IF store[classId].bookingCount + requestedBookings >= store[classId].maxCapacity
         THEN validationError
         ELSE 200

validateClassCapacityAlways(store, classId, requestedBookings) ==
    IF classId \notin DOMAIN store THEN notFoundError ELSE 200

\* The outcome of validateClassCapacity: 200 when it returns true, else the
\* status of the error it throws.
validateClassCapacity(store, classId, requestedBookings) ==
    IF classId \notin DOMAIN store THEN notFoundError
    ELSE IF store[classId].bookingCount + requestedBookings > store[classId].maxCapacity
         THEN validationError
         ELSE 200

\* Class.findByIdAndUpdate(classId, { $inc: { bookingCount: 1 } }): found says
\* whether a document matched, store is the collection afterwards.
incrementBookingCountGuarded(store, classId) ==
    IF classId \in DOMAIN store
       /\ store[classId].bookingCount < store[classId].maxCapacity
    THEN [found |-> TRUE,
          store |-> [store EXCEPT ![classId].bookingCount = @ + 1]]
    ELSE [found |-> FALSE, store |-> store]

incrementBookingCountTwice(store, classId) ==
    IF classId \in DOMAIN store
    THEN [found |-> TRUE,
          store |-> [store EXCEPT ![classId].bookingCount = @ + 2]]
    ELSE [found |-> FALSE, store |-> store]

incrementBookingCount(store, classId) ==
    IF classId \in DOMAIN store
    THEN [found |-> TRUE,
          store |-> [store EXCEPT ![classId].bookingCount = @ + 1]]
    ELSE [found |-> FALSE, store |-> store]

\* ----------------------------------------------------------------- requests
Idle == [op |-> "none", pc |-> "idle", classId |-> UnknownClass,
         intentId |-> "none", intentStatus |-> "none", paymentId |-> 0,
         requested |-> 0, payment |-> NoDoc, refundId |-> 0,
         amount |-> 0, status |-> 0, steps |-> <<>>]

Running(p) == req[p].pc \notin {"idle", "done"}

\* Requests in flight that may still add a payment record, a booking or a refund.
PendingSaves ==
    Cardinality({p \in Procs : req[p].op = "processPayment"
                               /\ req[p].pc \in {"capacity", "retrieve", "save"}})

PendingIncrements(c) ==
    Cardinality({p \in Procs : req[p].op = "processPayment" /\ Running(p)
                               /\ req[p].classId = c})

RECURSIVE SumOver(_, _)
SumOver(f, S) ==
    IF S = {} THEN 0
    ELSE LET x == CHOOSE y \in S : TRUE IN f[x] + SumOver(f, S \ {x})

\* The refunds the gateway has created so far; the next one gets the next id.
RefundsMade == SumOver(refunds, IntentIds)

PendingRefunds ==
    Cardinality({p \in Procs : req[p].op = "refundPayment" /\ req[p].pc = "gateway"})

\* The handler returns or throws: its locals are gone, the response stays.
Finish(p, code, step) ==
    [req EXCEPT ![p] = [Idle EXCEPT !.op = req[p].op, !.pc = "done",
                                    !.status = code,
                                    !.steps = Append(req[p].steps, step)]]

\* ------------------------------------------------------------------- users
\* A user document on the paths the role workflow reads and writes.  The
\* collection is a sequence, a document's place in it its _id.
Emails == {"a@fit.io", "A@fit.io", "b@fit.io"}
AdminEmail == "admin@fit.io"
Roles == {"member", "trainer", "admin"}
NoFeedback == "none"
FeedbackText == "not yet"

\* userSchema.email, lowercase: true; mongoose applies the setter to a document's
\* value and to the value in a query filter alike.
toLowerCase(email) == IF email = "A@fit.io" THEN "a@fit.io" ELSE email

\* new User(userData): the schema's defaults for role and status
NewUser(userData) ==
    [email |-> toLowerCase(userData.email),
     role |-> IF "role" \in DOMAIN userData THEN userData.role ELSE "member",
     status |-> "active",
     feedback |-> NoFeedback]

\* User.findOne({ email }): the _id of the document found, 0 for null
findOne(store, email) ==
    IF \E k \in DOMAIN store : store[k].email = toLowerCase(email)
    THEN CHOOSE k \in DOMAIN store : store[k].email = toLowerCase(email)
    ELSE 0

\* user.save() of a new document with no unique index on email
saveUserUnindexed(store, doc) == [ok |-> TRUE, store |-> Append(store, doc)]

\* user.save() of a new document: the unique index on email refuses a second
\* document with the same value (duplicate key, code 11000).
saveUser(store, doc) ==
    IF \E k \in DOMAIN store : store[k].email = doc.email
    THEN [ok |-> FALSE, store |-> store]
    ELSE [ok |-> TRUE, store |-> Append(store, doc)]

\* globalErrorHandler on an error with code 11000 and no statusCode: 500 with
\* NODE_ENV=development, handleDuplicateFieldsDB's 400 otherwise.
duplicateKeyStatus(env) ==
    IF env = "development" THEN serverError ELSE validationError

\* verifyToken: the token's user must still exist and not be deactivated
verifyToken(store, caller) ==
    IF caller \notin DOMAIN store THEN 401
    ELSE IF store[caller].status = "inactive" THEN 401
    ELSE 200

\* authorize(...roles)
authorize(user, roles) == IF user.role \in roles THEN 200 ELSE 403

\* canApplyForTrainer, on the authenticated user
canApplyForTrainer(user) ==
    IF user.role = "trainer" THEN 400
    ELSE IF user.status = "pending" THEN 400
    ELSE 200

\* The route's schema argument: a Joi schema, or the plain object of keys the
\* accept and reject routes pass.
trainerApplication == [joi |-> TRUE, keys |-> {"name", "skills"}]
userRegistration == [joi |-> TRUE, keys |-> {"email", "role"}]
acceptSchema == [joi |-> FALSE, keys |-> {"status", "role"}]
rejectSchema == [joi |-> FALSE, keys |-> {"status", "feedback"}]

\* validate(schema): schema.validate(body, { stripUnknown: true, ... }).  A
\* plain object has no validate method: the call throws a TypeError, which
\* reaches the error handler with no statusCode.
validate(schema, body) ==
    IF schema.joi
    THEN [status |-> 200,
          value |-> [k \in (DOMAIN body) \cap schema.keys |-> body[k]]]
    ELSE [status |-> serverError, value |-> body]

\* The service's own guards in applyForTrainer, on the user it read
applyForTrainerGuardNoPending(user) ==
    IF user.role = "trainer" THEN validationError ELSE 200

applyForTrainerGuard(user) ==
    IF user.role = "trainer" THEN validationError
    ELSE IF user.status = "pending" THEN validationError
    ELSE 200

\* The update documents of the four services that write a user
applyForTrainerUpdate(applicationData) ==
    [f \in (DOMAIN applicationData) \cup {"status"} |->
        IF f = "status" THEN "pending" ELSE applicationData[f]]

approveTrainerUpdate(approvalData) ==
    [status |-> approvalData.status, role |-> approvalData.role,
     feedback |-> NoFeedback]

rejectTrainerUpdate(rejectionData) ==
    [status |-> rejectionData.status, feedback |-> rejectionData.feedback]

removeTrainerUpdate == [status |-> "inactive", role |-> "member"]

\* User.findByIdAndUpdate(userId, update, { new: true }): paths the model does
\* not carry (name, skills, ...) change nothing in it.
findByIdAndUpdate(store, userId, update) ==
    IF userId \in DOMAIN store
    THEN [found |-> TRUE,
          store |-> [store EXCEPT ![userId] =
                        [f \in DOMAIN @ |->
                            IF f \in DOMAIN update THEN update[f] ELSE @[f]]]]
    ELSE [found |-> FALSE, store |-> store]

\* Request bodies as sent: the ones for accept and reject are what their
\* schemas ask for, the application tries to carry a role along.
AcceptBody == [status |-> "active", role |-> "trainer"]
RejectBody == [status |-> "rejected", feedback |-> FeedbackText]
ApplicationBodies == {[name |-> "Ann", skills |-> "yoga"],
                      [name |-> "Ann", skills |-> "yoga", role |-> "trainer"]}

UIdle == [op |-> "none", pc |-> "idle", target |-> 0, email |-> "none",
          role |-> "none", body |-> NoDoc, status |-> 0, steps |-> <<>>]

URunning(p) == ureq[p].pc \notin {"idle", "done"}

\* Requests in flight that may still add a user document.
PendingUsers ==
    Cardinality({p \in Procs : ureq[p].pc \in {"createFind", "save"}})

\* The handler returns or throws; the response names the user it was about.
UFinish(p, code, step) ==
    [ureq EXCEPT ![p] = [UIdle EXCEPT !.op = ureq[p].op, !.pc = "done",
                                      !.target = ureq[p].target,
                                      !.status = code,
                                      !.steps = Append(ureq[p].steps, step)]]

\* A request ended by its first step.
UEnded(op, target, code, step) ==
    [UIdle EXCEPT !.op = op, !.pc = "done", !.target = target, !.status = code,
                  !.steps = <<step>>]

UsersAtRest ==
    /\ users = <<[email |-> AdminEmail, role |-> "admin", status |-> "active",
                  feedback |-> NoFeedback]>>
    /\ ureq = [p \in Procs |-> UIdle]

\* userSchema.pre('save'): bcrypt.hash(this.password, salt); the stored value
\* is not the password and matches that password only.
hash(password) == <<"bcrypt", password>>

\* The password an account's owner chose; nobody else knows it.
PasswordOf(email) == <<"secret of", email>>

\* An account made by POST /auth/register: the document of createUser with
\* the hashed password on it.
RegisteredUser(email, role) ==
    LET doc == NewUser([email |-> email, role |-> role])
    IN  [f \in (DOMAIN doc) \cup {"password"} |->
            IF f = "password" THEN hash(PasswordOf(doc.email)) ELSE doc[f]]

\* userSchema.methods.comparePassword: false with no stored password, else
\* bcrypt.compare(candidatePassword, this.password)
comparePassword(user, candidatePassword) ==
    /\ "password" \in DOMAIN user
    /\ user.password = hash(candidatePassword)

\* What a login request may send as the password of the account it names:
\* the account's password, or a guess that is not it.
Candidates(email) == {PasswordOf(toLowerCase(email)), <<"guess">>}

\* authError
authError == 401

\* AuthService.login after findOne: the guards before the password is compared
loginFound(store, k) ==
    IF k = 0 THEN authError
    ELSE IF "password" \notin DOMAIN store[k] THEN authError
    ELSE 200

\* AuthService.login after comparePassword, on the user it read
loginChecked(user, candidatePassword) ==
    IF ~comparePassword(user, candidatePassword) THEN authError
    ELSE IF user.status = "inactive" THEN authError
    ELSE 200

\* AuthService.refreshToken, on the user findById returned (0 for null)
refreshToken(store, userId) ==
    IF userId \notin DOMAIN store THEN authError
    ELSE IF store[userId].status = "inactive" THEN authError
    ELSE 200

\* AuthService.forgotPassword: the message it returns
forgotPassword(store, email) ==
    IF findOne(store, email) = 0
    THEN "If user exists, password reset link has been sent"
    ELSE "Password reset link has been sent to your email"

\* The admin, a member and a trainer, all registered with a password.
Accounts ==
    <<RegisteredUser(AdminEmail, "admin"), RegisteredUser("a@fit.io", "member"),
      RegisteredUser("b@fit.io", "trainer")>>

\* -------------------------------------------------------------- newsletter
\* A subscriber document on the paths subscribe and unsubscribe decide by; its
\* place in the sequence is its _id.  subscriberSchema.email is lowercase and
\* unique like userSchema.email.
NewSubscriber(subscriberData) ==
    [email |-> toLowerCase(subscriberData.email), isActive |-> TRUE]

\* subscriber.save() of a new document, under the unique index on email
saveSubscriber(store, doc) ==
    IF \E k \in DOMAIN store : store[k].email = doc.email
    THEN [ok |-> FALSE, store |-> store]
    ELSE [ok |-> TRUE, store |-> Append(store, doc)]

\* subscribe with no reactivation: anything but an active subscription is
\* created anew.
subscribePlanAlwaysNew(store, k) ==
    IF k # 0 /\ store[k].isActive THEN "conflict" ELSE "create"

\* subscribe, on the document findOne returned (0 for null)
subscribePlan(store, k) ==
    IF k = 0 THEN "create"
    ELSE IF store[k].isActive THEN "conflict"
    ELSE "reactivate"

\* unsubscribe, on the document findOne returned
unsubscribePlan(store, k) ==
    IF k = 0 THEN notFoundError
    ELSE IF ~store[k].isActive THEN validationError
    ELSE 200

NIdle == [op |-> "none", pc |-> "idle", email |-> "none", found |-> 0,
          status |-> 0, steps |-> <<>>]

NFinish(p, code, step) ==
    [nreq EXCEPT ![p] = [NIdle EXCEPT !.op = nreq[p].op, !.pc = "done",
                                      !.email = nreq[p].email,
                                      !.status = code,
                                      !.steps = Append(nreq[p].steps, step)]]

NewsAtRest == subscribers = <<>> /\ nreq = [p \in Procs |-> NIdle]

\* ------------------------------------------------------- reading a payment
\* A request of GET /payments/:id or GET /payments/user; data holds the _ids
\* of the payments the response carries.
VIdle == [op |-> "none", pc |-> "idle", caller |-> 0, paymentId |-> 0,
          email |-> "none", status |-> 0, data |-> {}]

\* A record of a booking the user paid for; paymentSchema.userEmail is
\* lowercase: true.
PaidBy(email, intentId) ==
    NewPayment([classId |-> "c1", paymentIntentId |-> intentId,
                userEmail |-> toLowerCase(email)])

\* const userEmail = req.query.email || req.user.email
queriedEmail(given, email, user) == IF given THEN email ELSE user.email

\* getUserPayments: users can only view their own payments unless admin
ownPaymentsOnly(user, userEmail) ==
    IF user.role # "admin" /\ userEmail # user.email THEN 403 ELSE 200

\* Payment.find({ userEmail }): the _ids of the documents found
getPaymentByUser(store, userEmail) ==
    {k \in DOMAIN store : store[k].userEmail = toLowerCase(userEmail)}

\* Payment.findById(paymentId): the document's _id in a set, none for null
getPaymentById(store, paymentId) == {paymentId} \cap DOMAIN store

\* ------------------------------------------------------------------- slots
\* A trainer's slots, each entry standing for its slotName.
SlotNames == {"morning", "evening"}

\* user.slots.find(slot => slot.slotName === slotData.slotName)
existingSlot(userSlots, slotName) ==
    \E i \in DOMAIN userSlots : userSlots[i] = slotName

\* UserService.addSlot's guards on the user it read
addSlotGuard(user, userSlots, slotData) ==
    IF user.role # "trainer" THEN validationError
    ELSE IF existingSlot(userSlots, slotData.slotName) THEN conflictError
    ELSE 200

\* { $pull: { slots: { slotName } } }: every entry with the name goes
RECURSIVE pull(_, _)
pull(userSlots, slotName) ==
    IF userSlots = <<>> THEN <<>>
    ELSE IF Head(userSlots) = slotName THEN pull(Tail(userSlots), slotName)
    ELSE <<Head(userSlots)>> \o pull(Tail(userSlots), slotName)

\* ------------------------------------------------------------------- forum
\* A forum request; voteCount is the count its response carries.
FIdle == [op |-> "none", pc |-> "idle", caller |-> 0, target |-> 0,
          body |-> NoDoc, status |-> 0, voteCount |-> 0]

\* A post on the paths followed: author stands for author.email.
Authors == {"a@fit.io", "b@fit.io"}

\* new Forum({ ...postData, voteCount: 0, viewCount: 0 })
NewPost(postData) ==
    [title |-> postData.title, author |-> postData.author, voteCount |-> 0]

\* schemas.forumPost, and the route's fork of it for PATCH /:id, which makes
\* title, content and category optional and leaves author required
forumPost ==
    [joi |-> TRUE, keys |-> {"title", "author"}, required |-> {"title", "author"}]
forumPostUpdate ==
    [joi |-> TRUE, keys |-> {"title", "author"}, required |-> {"author"}]

\* validate(schema) on a schema with required keys: 400 when one is missing
validateRequired(schema, body) ==
    IF schema.required \subseteq DOMAIN body
    THEN validate(schema, body)
    ELSE [status |-> validationError, value |-> body]

\* updatePost's check on the post it read
updatePostGuard(post, userEmail) ==
    IF post.author # userEmail THEN validationError ELSE 200

\* Forum.findByIdAndUpdate(postId, updateData, { new: true }): the paths of
\* updateData replace the document's
updatePostDoc(post, updateData) ==
    [f \in DOMAIN post |-> IF f \in DOMAIN updateData THEN updateData[f]
                           ELSE post[f]]

\* $inc that stops at zero
incVoteCountFloored(store, postId, by) ==
    [store EXCEPT ![postId].voteCount = IF @ + by < 0 THEN 0 ELSE @ + by]

\* Forum.findByIdAndUpdate(postId, { $inc: { voteCount: by } }, { new: true })
incVoteCount(store, postId, by) ==
    [store EXCEPT ![postId].voteCount = @ + by]

\* Request bodies as sent: a new post, and updates with and without the
\* author object, one of them trying to set the count.
PostBodies == {[title |-> "t1", author |-> e] : e \in Authors}
UpdateBodies ==
    {[title |-> "t2", author |-> e] : e \in Authors}
       \cup {[title |-> "t2"],
             [title |-> "t2", author |-> "a@fit.io", voteCount |-> MaxVotes]}

\* ---------------------------------------------------------- authRateLimit
\* The routes whose limiter is followed, and the keys requests arrive with.
Routes == {"register", "login"}
Ips == {"10.0.0.1"}
Submitted == {"a@fit.io", "b@fit.io"}

\* const key = req.ip + req.body.email; the pair stands for the concatenation,
\* which tells these addresses and emails apart.
Key(ip, email) == <<ip, email>>
Keys == {Key(ip, email) : ip \in Ips, email \in Submitted}

\* What the middleware did with the last request: next() or the 429 response
NoAnswer == [key |-> <<>>, outcome |-> "none", at |-> 0]

\* authRateLimit(3, 15 * 60 * 1000) on /register, (5, 15 * 60 * 1000) on /login
maxAttempts(r) == IF r = "register" THEN 3 ELSE 5
windowMs == 15 * 60 * 1000

\* Date.now() is followed in steps of a third of the window, so that an
\* attempt can be exactly windowMs old.
ClockStep == windowMs \div 3

\* userAttempts.filter(attempt => attempt > windowStart)
validAttempts(userAttempts, windowStart) ==
    SelectSeq(userAttempts, LAMBDA attempt : attempt > windowStart)

\* The limit test letting one more through
tooManyAttemptsAbove(valid, r) == Len(valid) > maxAttempts(r)

\* if (validAttempts.length >= maxAttempts)
tooManyAttempts(valid, r) == Len(valid) >= maxAttempts(r)

\* const attempts = new Map(), and no request seen
LimiterAtRest ==
    /\ clock = 0
    /\ attempts = [k \in Keys |-> <<>>]
    /\ forwarded = [k \in Keys |-> <<>>]
    /\ answer = NoAnswer

ForumAtRest == posts = <<>> /\ freq = [p \in Procs |-> FIdle]

\* Every class active, no payment being read, no slot, no post, and the
\* limiter of one route with no request seen.
OthersAtRest ==
    /\ isActive = [c \in ClassIds |-> TRUE]
    /\ vreq = [p \in Procs |-> VIdle]
    /\ slots = [k \in 1 .. MaxUsers |-> <<>>]
    /\ ForumAtRest
    /\ route = "register"
    /\ LimiterAtRest

Init ==
    /\ classes \in [ClassIds -> {c \in [bookingCount : 0 .. MaxCap,
                                        maxCapacity : 1 .. MaxCap] :
                                   c.bookingCount <= c.maxCapacity}]
    /\ payments = <<>>
    /\ intents = [i \in IntentIds |-> "requires_payment_method"]
    /\ refunds = [i \in IntentIds |-> 0]
    /\ confirmed = <<>>
    /\ req = [p \in Procs |-> Idle]
    /\ created = {}
    /\ UsersAtRest
    /\ NewsAtRest
    /\ OthersAtRest

\* ------------------------------------------------- POST /payments (confirm)
\* PaymentController.processPayment, first await: validatePaymentData, which
\* ends by looking the class up.  The request body has passed schemas.payment.
ProcessPaymentValidate(p) ==
    /\ req[p].pc = "idle"
    /\ Len(payments) + PendingSaves < MaxPayments
    /\ \E c \in ClassArgs, i \in IntentIds :
          /\ c \in ClassIds =>
                classes[c].bookingCount + PendingIncrements(c) < MaxBooking
          /\ req' = [req EXCEPT ![p] =
                        IF c \in DOMAIN classes
                        THEN [Idle EXCEPT !.op = "processPayment", !.pc = "capacity",
                                          !.classId = c, !.intentId = i]
                        ELSE [Idle EXCEPT !.op = "processPayment", !.pc = "done",
                                          !.status = notFoundError]]
    /\ UNCHANGED <<classes, payments, intents, refunds, confirmed, elsewhere>>

\* processPayment (a): await classService.validateClassCapacity(classId)
ProcessPaymentCapacity(p) ==
    /\ req[p].op = "processPayment" /\ req[p].pc = "capacity"
    /\ LET r == validateClassCapacity(classes, req[p].classId, 1)
       IN  req' = IF r = 200
                  THEN [req EXCEPT ![p].pc = "retrieve",
                                   ![p].steps = Append(@, "capacity")]
                  ELSE Finish(p, r, "capacity")
    /\ UNCHANGED <<classes, payments, intents, refunds, confirmed, elsewhere>>

\* processPayment (b): await stripe.paymentIntents.retrieve(id); the call may
\* throw, otherwise the status it returns must be 'succeeded'.
ProcessPaymentRetrieve(p) ==
    /\ req[p].op = "processPayment" /\ req[p].pc = "retrieve"
    /\ \E answered \in BOOLEAN :
          req' = IF ~answered
                 THEN Finish(p, serverError, "retrieve")
                 ELSE LET s == intents[req[p].intentId]
                      IN  IF IntentAccepted(s)
                          THEN [req EXCEPT ![p].pc = "save",
                                           ![p].intentStatus = s,
                                           ![p].steps = Append(@, "retrieve")]
                          ELSE Finish(p, validationError, "retrieve")
    /\ UNCHANGED <<classes, payments, intents, refunds, confirmed, elsewhere>>

\* processPayment (c): new Payment({...}) and await payment.save()
ProcessPaymentSave(p) ==
    /\ req[p].op = "processPayment" /\ req[p].pc = "save"
    /\ \E written \in BOOLEAN :
          IF written
          THEN /\ payments' = Append(payments,
                        NewPayment([classId |-> req[p].classId,
                                    paymentIntentId |-> req[p].intentId]))
               /\ confirmed' = Append(confirmed, req[p].intentStatus)
               /\ req' = [req EXCEPT ![p].pc = "increment",
                                     ![p].paymentId = Len(payments) + 1,
                                     ![p].steps = Append(@, "save")]
          ELSE /\ req' = Finish(p, serverError, "save")
               /\ UNCHANGED <<payments, confirmed>>
    /\ UNCHANGED <<classes, intents, refunds, elsewhere>>

\* processPayment (d): await classService.incrementBookingCount(classId)
ProcessPaymentIncrement(p) ==
    /\ req[p].op = "processPayment" /\ req[p].pc = "increment"
    /\ \E written \in BOOLEAN :
          LET r == incrementBookingCount(classes, req[p].classId)
          IN  IF ~written
              THEN req' = Finish(p, serverError, "increment") /\ UNCHANGED classes
              ELSE IF r.found
                   THEN req' = Finish(p, 201, "increment") /\ classes' = r.store
                   ELSE req' = Finish(p, notFoundError, "increment")
                        /\ UNCHANGED classes
    /\ UNCHANGED <<payments, intents, refunds, confirmed, elsewhere>>

\* ------------------------------------------------- PATCH /classes/:id/book
BookClass(p) ==
    /\ req[p].pc = "idle"
    /\ \E c \in ClassArgs, written \in BOOLEAN :
          /\ c \in ClassIds =>
                classes[c].bookingCount + PendingIncrements(c) < MaxBooking
          /\ LET r == incrementBookingCount(classes, c)
                 code == IF ~written THEN serverError
                         ELSE IF r.found THEN 200 ELSE notFoundError
             IN  /\ req' = [req EXCEPT ![p] =
                              [Idle EXCEPT !.op = "book", !.pc = "done",
                                           !.status = code]]
                 /\ classes' = IF code = 200 THEN r.store ELSE classes
    /\ UNCHANGED <<payments, intents, refunds, confirmed, elsewhere>>

\* --------------------------------- GET /classes/:id/validate-capacity
\* const { bookings = 1 } = req.query; parseInt(bookings)
BookingsParam(given, value) == IF given THEN value ELSE 1

ValidateCapacity(p) ==
    /\ req[p].pc = "idle"
    /\ \E c \in ClassArgs, given \in BOOLEAN, value \in 0 .. MaxRequested :
          LET n == BookingsParam(given, value)
              r == validateClassCapacity(classes, c, n)
          IN  req' = [req EXCEPT ![p] =
                         [Idle EXCEPT !.op = "validateCapacity", !.pc = "done",
                                      !.classId = c, !.requested = n,
                                      !.status = r]]
    /\ UNCHANGED <<classes, payments, intents, refunds, confirmed, elsewhere>>

\* ------------------------------------------- POST /payments/:id/refund
\* refundPayment, first await: Payment.findById and the already-refunded guard
RefundFind(p) ==
    /\ req[p].pc = "idle"
    /\ RefundsMade + PendingRefunds < MaxRefunds
    /\ \E id \in 1 .. MaxPayments :
          req' = [req EXCEPT ![p] =
                     LET r == [Idle EXCEPT !.op = "refundPayment", !.paymentId = id,
                                           !.steps = <<"find">>]
                     IN  IF id \notin DOMAIN payments
                         THEN [r EXCEPT !.pc = "done", !.status = notFoundError,
                                        !.paymentId = 0]
                         ELSE IF AlreadyRefunded(payments[id])
                              THEN [r EXCEPT !.pc = "done",
                                             !.status = AlreadyRefundedError]
                              ELSE [r EXCEPT !.pc = "gateway",
                                             !.payment = payments[id]]]
    /\ UNCHANGED <<classes, payments, intents, refunds, confirmed, elsewhere>>

\* refundPayment: await stripe.refunds.create({ payment_intent, reason }); an
\* error of type 'StripeError' is rethrown as a validation error, any other
\* error as it is.
RefundGateway(p) ==
    /\ req[p].op = "refundPayment" /\ req[p].pc = "gateway"
    /\ \E answered \in {"refund", "StripeError", "error"} :
          IF answered = "refund"
          THEN /\ refunds' = [refunds EXCEPT
                                  ![req[p].payment.paymentIntentId] = @ + 1]
               /\ req' = [req EXCEPT ![p].pc = "update",
                                     ![p].refundId = RefundsMade + 1,
                                     ![p].steps = Append(@, "refund")]
          ELSE /\ req' = Finish(p, IF answered = "StripeError"
                                    THEN validationError ELSE serverError,
                                 "refund")
               /\ UNCHANGED refunds
    /\ UNCHANGED <<classes, payments, intents, confirmed, elsewhere>>

\* RefundUpdate with a compensating decrement of the class's bookingCount.
RefundUpdateReleasingSeat(p) ==
    /\ req[p].op = "refundPayment" /\ req[p].pc = "update"
    /\ \E written \in BOOLEAN :
          IF written
          THEN /\ payments' = [payments EXCEPT ![req[p].paymentId] =
                                  ApplyUpdate(@, RefundUpdateDoc(req[p].refundId))]
               /\ classes' = [classes EXCEPT ![req[p].payment.classId].bookingCount =
                                  IF @ > 0 THEN @ - 1 ELSE @]
               /\ req' = Finish(p, 200, "update")
          ELSE /\ req' = Finish(p, serverError, "update")
               /\ UNCHANGED <<payments, classes>>
    /\ UNCHANGED <<intents, refunds, confirmed, elsewhere>>

\* refundPayment: await Payment.findByIdAndUpdate(paymentId, {...}, {new: true})
RefundUpdate(p) ==
    /\ req[p].op = "refundPayment" /\ req[p].pc = "update"
    /\ \E written \in BOOLEAN :
          IF written
          THEN /\ payments' = [payments EXCEPT ![req[p].paymentId] =
                                  ApplyUpdate(@, RefundUpdateDoc(req[p].refundId))]
               /\ req' = Finish(p, 200, "update")
          ELSE /\ req' = Finish(p, serverError, "update")
               /\ UNCHANGED payments
    /\ UNCHANGED <<classes, intents, refunds, confirmed, elsewhere>>

\* ------------------------------------ POST /payments/create-payment-intent
\* A price is carried as a whole number of thousandths of the major unit (1000
\* is 1.00), which holds every price used here exactly.  The body has passed
\* schemas.paymentIntent: price is a number, at least 0.
Prices == {0, 490, 500, 1000, 49990, 50000, 50006}

\* if (amount < 50): the price, in major units, against the number 50
belowMinimum(amount) == amount < 50 * 1000

\* Math.round(amount * 100): the nearest whole number of minor units
toCents(amount) == (amount + 5) \div 10

\* catch (error): a 'StripeError' becomes a validation error, anything else,
\* the handler's own validation error included, a server error.
createIntentCatch(type) ==
    IF type = "StripeError" THEN validationError ELSE serverError

\* createPaymentIntent up to its await: the guard throws inside the try, or the
\* request to the gateway is sent.
CreatePaymentIntent(p) ==
    /\ req[p].pc = "idle"
    /\ \E price \in Prices :
          req' = [req EXCEPT ![p] =
                     IF belowMinimum(price)
                     THEN [Idle EXCEPT !.op = "createPaymentIntent", !.pc = "done",
                                       !.amount = price,
                                       !.status = createIntentCatch("AppError"),
                                       !.steps = <<"guard">>]
                     ELSE [Idle EXCEPT !.op = "createPaymentIntent",
                                       !.pc = "create", !.amount = price,
                                       !.steps = <<"guard", "create">>]]
    /\ UNCHANGED <<classes, payments, intents, refunds, confirmed, elsewhere>>

\* CreateIntentAnswer asking the gateway once more after a failed call.
CreateIntentAnswerRetrying(p) ==
    /\ req[p].op = "createPaymentIntent" /\ req[p].pc = "create"
    /\ \E answered \in {"intent", "StripeError", "error"} :
          IF answered = "intent"
          THEN /\ created' = created \cup {toCents(req[p].amount)}
               /\ req' = Finish(p, 200, "answer")
          ELSE /\ req' = IF Len(req[p].steps) < 3
                          THEN [req EXCEPT ![p].steps = Append(@, "create")]
                          ELSE Finish(p, createIntentCatch(answered), "answer")
               /\ UNCHANGED created
    /\ UNCHANGED <<classes, payments, intents, refunds, confirmed, userVars, newsVars, otherVars>>

\* await stripe.paymentIntents.create({ amount: Math.round(amount * 100), ... })
\* answers with the intent it created, or throws.
CreateIntentAnswer(p) ==
    /\ req[p].op = "createPaymentIntent" /\ req[p].pc = "create"
    /\ \E answered \in {"intent", "StripeError", "error"} :
          IF answered = "intent"
          THEN /\ created' = created \cup {toCents(req[p].amount)}
               /\ req' = Finish(p, 200, "answer")
          ELSE /\ req' = Finish(p, createIntentCatch(answered), "answer")
               /\ UNCHANGED created
    /\ UNCHANGED <<classes, payments, intents, refunds, confirmed, userVars, newsVars, otherVars>>

\* ---------------------------------------------------------------- the rest
\* The response has been sent; the connection takes its next request.
Respond(p) ==
    /\ req[p].pc = "done"
    /\ req' = [req EXCEPT ![p] = Idle]
    /\ UNCHANGED <<classes, payments, intents, refunds, confirmed, elsewhere>>

\* The customer completes the payment at the gateway.
ConfirmIntent(i) ==
    /\ intents[i] = "requires_payment_method"
    /\ intents' = [intents EXCEPT ![i] = "succeeded"]
    /\ UNCHANGED <<classes, payments, refunds, confirmed, req, elsewhere>>

Step(p) ==
    \/ ProcessPaymentValidate(p)
    \/ ProcessPaymentCapacity(p)
    \/ ProcessPaymentRetrieve(p)
    \/ ProcessPaymentSave(p)
    \/ ProcessPaymentIncrement(p)
    \/ BookClass(p)
    \/ ValidateCapacity(p)
    \/ RefundFind(p)
    \/ RefundGateway(p)
    \/ RefundUpdate(p)
    \/ Respond(p)

Next ==
    \/ \E p \in Procs : Step(p)
    \/ \E i \in IntentIds : ConfirmIntent(i)

Spec == Init /\ [][Next]_vars

\* Requests served one at a time: a request takes a step only while no other
\* request is between its first await and its response.
NextSeq ==
    \/ \E p \in Procs : (\A q \in Procs \ {p} : ~Running(q)) /\ Step(p)
    \/ \E i \in IntentIds : ConfirmIntent(i)

SpecSeq == Init /\ [][NextSeq]_vars

\* The intent endpoint on its own.
NextIntent ==
    \E p \in Procs : CreatePaymentIntent(p) \/ CreateIntentAnswer(p) \/ Respond(p)

SpecIntent == Init /\ [][NextIntent]_vars

\* Every endpoint, the intent endpoint included, over one class with a free
\* seat; the requests are served one after the other, each answered before the
\* next is taken.
InitGateway ==
    /\ Init
    /\ classes = [c \in ClassIds |-> [bookingCount |-> 0, maxCapacity |-> 1]]

NextGateway ==
    \/ \E p \in Procs :
          /\ \A q \in Procs \ {p} : req[q].pc = "idle"
          /\ (Step(p) \/ CreatePaymentIntent(p) \/ CreateIntentAnswer(p))
    \/ \E i \in IntentIds : ConfirmIntent(i)

SpecGateway == InitGateway /\ [][NextGateway]_vars

\* ------------------------------------------------------- POST /auth/register
\* The body has passed schemas.userRegistration, which admits the roles member
\* and trainer and fills in member.  AuthService.register: await User.findOne
RegisterFind(p) ==
    /\ ureq[p].pc = "idle"
    /\ Len(users) + PendingUsers < MaxUsers
    /\ \E body \in [email : Emails, role : {"member", "trainer"}] :
          LET v == validate(userRegistration, body).value
          IN  ureq' = [ureq EXCEPT ![p] =
                  IF findOne(users, v.email) # 0
                  THEN UEnded("register", 0, conflictError, "find")
                  ELSE [UIdle EXCEPT !.op = "register", !.pc = "createFind",
                                     !.email = v.email, !.role = v.role,
                                     !.steps = <<"find">>]]
    /\ UNCHANGED <<users, payVars, newsVars, otherVars>>

\* POST /users: verifyToken, authorize('admin'), validate(userRegistration)
AdminCreateUser(p) ==
    /\ ureq[p].pc = "idle"
    /\ Len(users) + PendingUsers < MaxUsers
    /\ \E caller \in 1 .. MaxUsers,
          body \in [email : Emails, role : {"member", "trainer"}] :
          LET auth == verifyToken(users, caller)
              v == validate(userRegistration, body).value
          IN  ureq' = [ureq EXCEPT ![p] =
                  IF auth # 200 THEN UEnded("createUser", 0, auth, "auth")
                  ELSE IF authorize(users[caller], {"admin"}) # 200
                  THEN UEnded("createUser", 0, 403, "auth")
                  ELSE [UIdle EXCEPT !.op = "createUser", !.pc = "createFind",
                                     !.email = v.email, !.role = v.role,
                                     !.steps = <<"auth">>]]
    /\ UNCHANGED <<users, payVars, newsVars, otherVars>>

\* POST /auth/social-login, AuthService.socialLogin: await User.findOne; a known
\* user is logged in (401 if deactivated), an unknown one is created.
SocialLoginFind(p) ==
    /\ ureq[p].pc = "idle"
    /\ Len(users) + PendingUsers < MaxUsers
    /\ \E email \in Emails :
          LET k == findOne(users, email)
          IN  ureq' = [ureq EXCEPT ![p] =
                  IF k = 0
                  THEN [UIdle EXCEPT !.op = "socialLogin", !.pc = "createFind",
                                     !.email = email, !.steps = <<"find">>]
                  ELSE UEnded("socialLogin", k,
                              IF users[k].status = "inactive" THEN 401 ELSE 200,
                              "find")]
    /\ UNCHANGED <<users, payVars, newsVars, otherVars>>

\* UserService.createUser: await User.findOne({ email })
CreateUserFind(p) ==
    /\ ureq[p].pc = "createFind"
    /\ ureq' = IF findOne(users, ureq[p].email) # 0
               THEN UFinish(p, conflictError, "find")
               ELSE [ureq EXCEPT ![p].pc = "save", ![p].steps = Append(@, "find")]
    /\ UNCHANGED <<users, payVars, newsVars, otherVars>>

\* UserService.createUser: new User(userData) and await user.save()
CreateUserSave(p) ==
    /\ ureq[p].pc = "save"
    /\ LET userData == IF ureq[p].role = "none"
                       THEN [email |-> ureq[p].email]
                       ELSE [email |-> ureq[p].email, role |-> ureq[p].role]
           r == saveUser(users, NewUser(userData))
       IN  /\ users' = r.store
           /\ \E env \in {"development", "production"} :
                 ureq' = [UFinish(p, IF ~r.ok THEN duplicateKeyStatus(env)
                                     ELSE IF ureq[p].op = "socialLogin" THEN 200
                                     ELSE 201, "save")
                              EXCEPT ![p].target = IF r.ok THEN Len(r.store) ELSE 0]
    /\ UNCHANGED <<payVars, newsVars, otherVars>>

\* --------------------------------------------------- PATCH /users/:id/apply
\* verifyToken, validateObjectId, canApplyForTrainer (on the caller),
\* validate(schemas.trainerApplication); the controller then calls the service.
ApplyForTrainerAuth(p) ==
    /\ ureq[p].pc = "idle"
    /\ \E caller \in 1 .. MaxUsers, id \in 1 .. MaxUsers,
          body \in ApplicationBodies :
          LET auth == verifyToken(users, caller)
              v == validate(trainerApplication, body)
          IN  ureq' = [ureq EXCEPT ![p] =
                  IF auth # 200 THEN UEnded("apply", id, auth, "auth")
                  ELSE IF canApplyForTrainer(users[caller]) # 200
                  THEN UEnded("apply", id, canApplyForTrainer(users[caller]),
                              "auth")
                  ELSE IF v.status # 200 THEN UEnded("apply", id, v.status, "auth")
                  ELSE [UIdle EXCEPT !.op = "apply", !.pc = "applyFind",
                                     !.target = id, !.body = v.value,
                                     !.steps = <<"auth">>]]
    /\ UNCHANGED <<users, payVars, newsVars, otherVars>>

\* UserService.applyForTrainer: await User.findById(userId) and the two guards
ApplyForTrainerFind(p) ==
    /\ ureq[p].pc = "applyFind"
    /\ LET id == ureq[p].target
       IN  ureq' = IF id \notin DOMAIN users
                   THEN UFinish(p, notFoundError, "find")
                   ELSE IF applyForTrainerGuard(users[id]) # 200
                   THEN UFinish(p, applyForTrainerGuard(users[id]), "find")
                   ELSE [ureq EXCEPT ![p].pc = "applyUpdate",
                                     ![p].steps = Append(@, "find")]
    /\ UNCHANGED <<users, payVars, newsVars, otherVars>>

\* UserService.applyForTrainer: await User.findByIdAndUpdate(userId,
\* { ...applicationData, status: 'pending' })
ApplyForTrainerUpdate(p) ==
    /\ ureq[p].pc = "applyUpdate"
    /\ LET r == findByIdAndUpdate(users, ureq[p].target,
                                  applyForTrainerUpdate(ureq[p].body))
       IN  /\ users' = r.store
           /\ ureq' = UFinish(p, IF r.found THEN 200 ELSE serverError, "update")
    /\ UNCHANGED <<payVars, newsVars, otherVars>>

\* The admin routes and PATCH /users/me up to their service call: verifyToken,
\* authorize('admin') on the admin routes, validateObjectId, and the route's
\* validate(...) where it has one.
AdminRoute(p, op, schema, body) ==
    /\ ureq[p].pc = "idle"
    /\ \E caller \in 1 .. MaxUsers, id \in 1 .. MaxUsers :
          LET auth == verifyToken(users, caller)
              v == validate(schema, body)
          IN  ureq' = [ureq EXCEPT ![p] =
                  IF auth # 200 THEN UEnded(op, id, auth, "auth")
                  ELSE IF authorize(users[caller], {"admin"}) # 200
                  THEN UEnded(op, id, 403, "auth")
                  ELSE IF v.status # 200 THEN UEnded(op, id, v.status, "validate")
                  ELSE [UIdle EXCEPT !.op = op, !.pc = "service", !.target = id,
                                     !.body = v.value, !.steps = <<"auth">>]]
    /\ UNCHANGED <<users, payVars, newsVars, otherVars>>

\* PATCH /users/application/accept/:id
ApproveTrainerApplication(p) == AdminRoute(p, "approve", acceptSchema, AcceptBody)

\* PATCH /users/application/reject/:id
RejectTrainerApplication(p) == AdminRoute(p, "reject", rejectSchema, RejectBody)

\* PATCH /users/trainer/:id/remove: no validate(...) on this route
RemoveTrainer(p) == AdminRoute(p, "removeTrainer", [joi |-> TRUE, keys |-> {}], NoDoc)

\* PATCH /users/me: verifyToken, validate(trainerApplication.fork(...)), then
\* updateUser(req.user._id, req.body)
UpdateMyProfile(p) ==
    /\ ureq[p].pc = "idle"
    /\ \E caller \in 1 .. MaxUsers, body \in ApplicationBodies :
          LET auth == verifyToken(users, caller)
              v == validate(trainerApplication, body)
          IN  ureq' = [ureq EXCEPT ![p] =
                  IF auth # 200 THEN UEnded("updateMyProfile", caller, auth, "auth")
                  ELSE [UIdle EXCEPT !.op = "updateMyProfile", !.pc = "service",
                                     !.target = caller, !.body = v.value,
                                     !.steps = <<"auth">>]]
    /\ UNCHANGED <<users, payVars, newsVars, otherVars>>

\* The update each service sends for the request it serves
serviceUpdate(op, body) ==
    CASE op = "approve" -> approveTrainerUpdate(body)
      [] op = "reject" -> rejectTrainerUpdate(body)
      [] op = "removeTrainer" -> removeTrainerUpdate
      [] OTHER -> body

\* approveTrainerApplication, rejectTrainerApplication, removeTrainer and
\* updateUser: await User.findByIdAndUpdate(userId, ...), not-found when null
ServiceUpdate(p) ==
    /\ ureq[p].pc = "service"
    /\ LET r == findByIdAndUpdate(users, ureq[p].target,
                                  serviceUpdate(ureq[p].op, ureq[p].body))
       IN  /\ users' = r.store
           /\ ureq' = UFinish(p, IF r.found THEN 200 ELSE notFoundError, "update")
    /\ UNCHANGED <<payVars, newsVars, otherVars>>

URespond(p) ==
    /\ ureq[p].pc = "done"
    /\ ureq' = [ureq EXCEPT ![p] = UIdle]
    /\ UNCHANGED <<users, payVars, newsVars, otherVars>>

UStep(p) ==
    \/ RegisterFind(p)
    \/ AdminCreateUser(p)
    \/ SocialLoginFind(p)
    \/ CreateUserFind(p)
    \/ CreateUserSave(p)
    \/ ApplyForTrainerAuth(p)
    \/ ApplyForTrainerFind(p)
    \/ ApplyForTrainerUpdate(p)
    \/ ApproveTrainerApplication(p)
    \/ RejectTrainerApplication(p)
    \/ RemoveTrainer(p)
    \/ UpdateMyProfile(p)
    \/ ServiceUpdate(p)
    \/ URespond(p)

NextUsers == \E p \in Procs : UStep(p)

\* The user endpoints on their own: the booking side stays as one class with a
\* free seat and no request.
InitUsers == InitGateway

SpecUsers == InitUsers /\ [][NextUsers]_vars

\* --------------------------------------------- POST /newsletters/subscribe
\* validateSubscriberData has let the email through; NewsletterService.subscribe:
\* await Subscriber.findOne({ email })
SubscribeFind(p) ==
    /\ nreq[p].pc = "idle"
    /\ \E email \in Emails :
          LET k == findOne(subscribers, email)
              plan == subscribePlan(subscribers, k)
              r == [NIdle EXCEPT !.op = "subscribe", !.email = email,
                                 !.steps = <<"find">>]
          IN  nreq' = [nreq EXCEPT ![p] =
                  IF plan = "conflict"
                  THEN [r EXCEPT !.pc = "done", !.status = conflictError]
                  ELSE [r EXCEPT !.pc = plan, !.found = k]]
    /\ UNCHANGED <<subscribers, payVars, userVars, otherVars>>

\* existingSubscriber.isActive = true; await existingSubscriber.save()
SubscribeReactivate(p) ==
    /\ nreq[p].pc = "reactivate"
    /\ subscribers' = [subscribers EXCEPT ![nreq[p].found].isActive = TRUE]
    /\ nreq' = NFinish(p, 201, "reactivate")
    /\ UNCHANGED <<payVars, userVars, otherVars>>

\* new Subscriber(subscriberData); await subscriber.save()
SubscribeCreate(p) ==
    /\ nreq[p].pc = "create"
    /\ LET r == saveSubscriber(subscribers,
                               NewSubscriber([email |-> nreq[p].email]))
       IN  /\ subscribers' = r.store
           /\ \E env \in {"development", "production"} :
                 nreq' = NFinish(p, IF r.ok THEN 201 ELSE duplicateKeyStatus(env),
                                 "create")
    /\ UNCHANGED <<payVars, userVars, otherVars>>

\* POST /newsletters/unsubscribe, NewsletterService.unsubscribe: findOne
UnsubscribeFind(p) ==
    /\ nreq[p].pc = "idle"
    /\ \E email \in Emails :
          LET k == findOne(subscribers, email)
              code == unsubscribePlan(subscribers, k)
              r == [NIdle EXCEPT !.op = "unsubscribe", !.email = email,
                                 !.steps = <<"find">>]
          IN  nreq' = [nreq EXCEPT ![p] =
                  IF code # 200
                  THEN [r EXCEPT !.pc = "done", !.status = code]
                  ELSE [r EXCEPT !.pc = "deactivate", !.found = k]]
    /\ UNCHANGED <<subscribers, payVars, userVars, otherVars>>

\* subscriber.isActive = false; await subscriber.save()
UnsubscribeSave(p) ==
    /\ nreq[p].pc = "deactivate"
    /\ subscribers' = [subscribers EXCEPT ![nreq[p].found].isActive = FALSE]
    /\ nreq' = NFinish(p, 200, "deactivate")
    /\ UNCHANGED <<payVars, userVars, otherVars>>

NRespond(p) ==
    /\ nreq[p].pc = "done"
    /\ nreq' = [nreq EXCEPT ![p] = NIdle]
    /\ UNCHANGED <<subscribers, payVars, userVars, otherVars>>

NStep(p) ==
    \/ SubscribeFind(p)
    \/ SubscribeReactivate(p)
    \/ SubscribeCreate(p)
    \/ UnsubscribeFind(p)
    \/ UnsubscribeSave(p)
    \/ NRespond(p)

NextNews == \E p \in Procs : NStep(p)

SpecNews == InitGateway /\ [][NextNews]_vars

\* ------------------------------------------------------ GET /payments/:id
\* verifyToken (await User.findById), validateObjectId, and the controller up
\* to its await of the service
GetPaymentByIdAuth(p) ==
    /\ vreq[p].pc = "idle"
    /\ \E caller \in 0 .. MaxUsers, id \in 1 .. MaxPayments + 1 :
          LET auth == verifyToken(users, caller)
          IN  vreq' = [vreq EXCEPT ![p] =
                  IF auth # 200
                  THEN [VIdle EXCEPT !.op = "getPaymentById", !.pc = "done",
                                     !.caller = caller, !.status = auth]
                  ELSE [VIdle EXCEPT !.op = "getPaymentById", !.pc = "find",
                                     !.caller = caller, !.paymentId = id]]
    /\ UNCHANGED <<payVars, userVars, newsVars, isActive, slots, forumVars,
                   limitVars>>

\* PaymentService.getPaymentById: await Payment.findById(paymentId), not found
\* when null; the controller answers 200 with the payment.
GetPaymentByIdFind(p) ==
    /\ vreq[p].op = "getPaymentById" /\ vreq[p].pc = "find"
    /\ LET found == getPaymentById(payments, vreq[p].paymentId)
       IN  vreq' = [vreq EXCEPT ![p].pc = "done",
                                ![p].status = IF found = {} THEN notFoundError
                                              ELSE 200,
                                ![p].data = found]
    /\ UNCHANGED <<payVars, userVars, newsVars, isActive, slots, forumVars,
                   limitVars>>

\* ------------------------------------------------- GET /payments/my-payments
\* verifyToken, then the controller's own check before it awaits the service
GetUserPaymentsAuth(p) ==
    /\ vreq[p].pc = "idle"
    /\ \E caller \in 0 .. MaxUsers, given \in BOOLEAN, email \in Emails :
          LET auth == verifyToken(users, caller)
              r == [VIdle EXCEPT !.op = "getUserPayments", !.caller = caller]
          IN  vreq' = [vreq EXCEPT ![p] =
                  IF auth # 200 THEN [r EXCEPT !.pc = "done", !.status = auth]
                  ELSE LET userEmail == queriedEmail(given, email, users[caller])
                           own == ownPaymentsOnly(users[caller], userEmail)
                       IN  IF own # 200
                           THEN [r EXCEPT !.pc = "done", !.status = own,
                                          !.email = userEmail]
                           ELSE [r EXCEPT !.pc = "find", !.email = userEmail]]
    /\ UNCHANGED <<payVars, userVars, newsVars, isActive, slots, forumVars,
                   limitVars>>

\* PaymentService.getPaymentByUser: await Payment.find({ userEmail })
GetUserPaymentsFind(p) ==
    /\ vreq[p].op = "getUserPayments" /\ vreq[p].pc = "find"
    /\ vreq' = [vreq EXCEPT ![p].pc = "done", ![p].status = 200,
                            ![p].data = getPaymentByUser(payments, vreq[p].email)]
    /\ UNCHANGED <<payVars, userVars, newsVars, isActive, slots, forumVars,
                   limitVars>>

VRespond(p) ==
    /\ vreq[p].pc = "done"
    /\ vreq' = [vreq EXCEPT ![p] = VIdle]
    /\ UNCHANGED <<payVars, userVars, newsVars, isActive, slots, forumVars,
                   limitVars>>

VStep(p) ==
    \/ GetPaymentByIdAuth(p)
    \/ GetPaymentByIdFind(p)
    \/ GetUserPaymentsAuth(p)
    \/ GetUserPaymentsFind(p)
    \/ VRespond(p)

NextView == \E p \in Procs : VStep(p)

\* The booking side with nothing in flight: one class, no request.
BookingsAtRest ==
    /\ intents = [i \in IntentIds |-> "succeeded"]
    /\ refunds = [i \in IntentIds |-> 0]
    /\ req = [p \in Procs |-> Idle]
    /\ created = {}

\* Three accounts, and a class two of them have each paid a booking of.
InitView ==
    /\ classes = [c \in ClassIds |-> [bookingCount |-> 2, maxCapacity |-> 2]]
    /\ payments = <<PaidBy("a@fit.io", "pi1"), PaidBy("b@fit.io", "pi2")>>
    /\ confirmed = <<"succeeded", "succeeded">>
    /\ BookingsAtRest
    /\ users = Accounts
    /\ ureq = [p \in Procs |-> UIdle]
    /\ NewsAtRest
    /\ OthersAtRest

SpecView == InitView /\ [][NextView]_vars

\* --------------------------------------------------------- POST /auth/login
\* The body has passed schemas.userLogin.  AuthService.login: await
\* User.findOne({ email }).select('+password') and the two guards on it
LoginFind(p) ==
    /\ ureq[p].pc = "idle"
    /\ \E email \in Emails :
       \E password \in Candidates(email) :
          LET k == findOne(users, email)
          IN  ureq' = [ureq EXCEPT ![p] =
                  IF loginFound(users, k) # 200
                  THEN UEnded("login", k, loginFound(users, k), "find")
                  ELSE [UIdle EXCEPT !.op = "login", !.pc = "compare",
                                     !.target = k, !.email = email,
                                     !.body = [user |-> users[k],
                                               password |-> password],
                                     !.steps = <<"find">>]]
    /\ UNCHANGED <<users, payVars, newsVars, otherVars>>

\* AuthService.login: await user.comparePassword(password), then the status
\* check, both on the document read before
LoginCompare(p) ==
    /\ ureq[p].op = "login" /\ ureq[p].pc = "compare"
    /\ LET code == loginChecked(ureq[p].body.user, ureq[p].body.password)
       IN  ureq' = IF code # 200 THEN UFinish(p, code, "compare")
                   ELSE [ureq EXCEPT ![p].pc = "lastLogin",
                                     ![p].steps = Append(@, "compare")]
    /\ UNCHANGED <<users, payVars, newsVars, otherVars>>

\* AuthService.login: await userService.updateLastLogin(user._id), which
\* writes lastLogin only and swallows its errors; then generateToken and 200
LoginLastLogin(p) ==
    /\ ureq[p].op = "login" /\ ureq[p].pc = "lastLogin"
    /\ ureq' = UFinish(p, 200, "lastLogin")
    /\ UNCHANGED <<users, payVars, newsVars, otherVars>>

\* ------------------------------------------------ POST /auth/refresh-token
\* router.use(verifyToken): await User.findById(decoded.id)
RefreshTokenAuth(p) ==
    /\ ureq[p].pc = "idle"
    /\ \E caller \in 1 .. MaxUsers :
          LET auth == verifyToken(users, caller)
          IN  ureq' = [ureq EXCEPT ![p] =
                  IF auth # 200 THEN UEnded("refreshToken", caller, auth, "auth")
                  ELSE [UIdle EXCEPT !.op = "refreshToken", !.pc = "refresh",
                                     !.target = caller, !.steps = <<"auth">>]]
    /\ UNCHANGED <<users, payVars, newsVars, otherVars>>

\* AuthService.refreshToken(req.user.id): await User.findById(userId), then
\* generateToken and 200
RefreshToken(p) ==
    /\ ureq[p].op = "refreshToken" /\ ureq[p].pc = "refresh"
    /\ ureq' = UFinish(p, refreshToken(users, ureq[p].target), "find")
    /\ UNCHANGED <<users, payVars, newsVars, otherVars>>

\* ----------------------------------------------- POST /auth/forgot-password
\* The body has passed the route's schema.  AuthService.forgotPassword: await
\* User.findOne({ email }); the controller answers 200 with the message.
ForgotPassword(p) ==
    /\ ureq[p].pc = "idle"
    /\ \E email \in Emails :
          ureq' = [ureq EXCEPT ![p] =
                      [UEnded("forgotPassword", 0, 200, "find")
                          EXCEPT !.email = email,
                                 !.body = [message |->
                                              forgotPassword(users, email)]]]
    /\ UNCHANGED <<users, payVars, newsVars, otherVars>>

\* The endpoints that issue tokens, beside the ones that deactivate an account
\* and that may change its status afterwards.
AuthStep(p) ==
    \/ LoginFind(p)
    \/ LoginCompare(p)
    \/ LoginLastLogin(p)
    \/ SocialLoginFind(p)
    \/ CreateUserFind(p)
    \/ CreateUserSave(p)
    \/ RefreshTokenAuth(p)
    \/ RefreshToken(p)
    \/ ForgotPassword(p)
    \/ RemoveTrainer(p)
    \/ ServiceUpdate(p)
    \/ ApplyForTrainerAuth(p)
    \/ ApplyForTrainerFind(p)
    \/ ApplyForTrainerUpdate(p)
    \/ URespond(p)

NextAuth == \E p \in Procs : AuthStep(p)

\* The admin and a member are registered; b@fit.io has no account yet.
InitAuth ==
    /\ classes = [c \in ClassIds |-> [bookingCount |-> 0, maxCapacity |-> 1]]
    /\ payments = <<>>
    /\ confirmed = <<>>
    /\ BookingsAtRest
    /\ users = SubSeq(Accounts, 1, 2)
    /\ ureq = [p \in Procs |-> UIdle]
    /\ NewsAtRest
    /\ OthersAtRest

SpecAuth == InitAuth /\ [][NextAuth]_vars

\* ------------------------------------------------------ DELETE /classes/:id
\* verifyToken and the two authorize(...) of the router have let an admin
\* through.  ClassService.deleteClass: await Class.findByIdAndUpdate(classId,
\* { isActive: false }), not found when null
DeleteClass(p) ==
    /\ req[p].pc = "idle"
    /\ \E c \in ClassArgs :
          /\ req' = [req EXCEPT ![p] =
                        [Idle EXCEPT !.op = "deleteClass", !.pc = "done",
                                     !.classId = c,
                                     !.status = IF c \in ClassIds THEN 200
                                                ELSE notFoundError]]
          /\ isActive' = [k \in ClassIds |-> IF k = c THEN FALSE ELSE isActive[k]]
    /\ UNCHANGED <<classes, payments, intents, refunds, confirmed, created,
                   userVars, newsVars, vreq, slots, forumVars, limitVars>>

\* The booking endpoints beside the one that deactivates a class.
NextClass ==
    \/ \E p \in Procs : Step(p) \/ DeleteClass(p)
    \/ \E i \in IntentIds : ConfirmIntent(i)

SpecClass == InitGateway /\ [][NextClass]_vars

\* ------------------------------------------------------------ POST /forum
\* router.use(verifyToken), validate(schemas.forumPost)
CreatePostAuth(p) ==
    /\ freq[p].pc = "idle"
    /\ Len(posts) + Cardinality({q \in Procs : freq[q].pc = "save"}) < MaxPosts
    /\ \E caller \in DOMAIN users, body \in PostBodies :
          LET auth == verifyToken(users, caller)
              v == validateRequired(forumPost, body)
              r == [FIdle EXCEPT !.op = "createPost", !.caller = caller]
          IN  freq' = [freq EXCEPT ![p] =
                  IF auth # 200 THEN [r EXCEPT !.pc = "done", !.status = auth]
                  ELSE IF v.status # 200
                  THEN [r EXCEPT !.pc = "done", !.status = v.status]
                  ELSE [r EXCEPT !.pc = "save", !.body = v.value]]
    /\ UNCHANGED <<posts, payVars, userVars, newsVars, isActive, vreq, slots,
                   limitVars>>

\* ForumService.createPost: await newPost.save()
CreatePostSave(p) ==
    /\ freq[p].op = "createPost" /\ freq[p].pc = "save"
    /\ posts' = Append(posts, NewPost(freq[p].body))
    /\ freq' = [freq EXCEPT ![p] =
                   [FIdle EXCEPT !.op = "createPost", !.pc = "done",
                                 !.caller = freq[p].caller,
                                 !.target = Len(posts) + 1, !.status = 201]]
    /\ UNCHANGED <<payVars, userVars, newsVars, isActive, vreq, slots, limitVars>>

\* ------------------------------------------------------- PATCH /forum/:id
\* router.use(verifyToken), validateObjectId, validate(the forked schema)
UpdatePostAuth(p) ==
    /\ freq[p].pc = "idle"
    /\ \E caller \in DOMAIN users, id \in 1 .. MaxPosts, body \in UpdateBodies :
          LET auth == verifyToken(users, caller)
              v == validateRequired(forumPostUpdate, body)
              r == [FIdle EXCEPT !.op = "updatePost", !.caller = caller,
                                 !.target = id]
          IN  freq' = [freq EXCEPT ![p] =
                  IF auth # 200 THEN [r EXCEPT !.pc = "done", !.status = auth]
                  ELSE IF v.status # 200
                  THEN [r EXCEPT !.pc = "done", !.status = v.status]
                  ELSE [r EXCEPT !.pc = "find", !.body = v.value]]
    /\ UNCHANGED <<posts, payVars, userVars, newsVars, isActive, vreq, slots,
                   limitVars>>

\* ForumService.updatePost(id, req.body, req.user.email): await
\* Forum.findById(postId), not found, and the author check
UpdatePostFind(p) ==
    /\ freq[p].op = "updatePost" /\ freq[p].pc = "find"
    /\ LET id == freq[p].target
           userEmail == users[freq[p].caller].email
           code == IF id \notin DOMAIN posts THEN notFoundError
                   ELSE updatePostGuard(posts[id], userEmail)
       IN  freq' = IF code # 200
                   THEN [freq EXCEPT ![p].pc = "done", ![p].status = code,
                                     ![p].body = NoDoc]
                   ELSE [freq EXCEPT ![p].pc = "update"]
    /\ UNCHANGED <<posts, payVars, userVars, newsVars, isActive, vreq, slots,
                   limitVars>>

\* ForumService.updatePost: await Forum.findByIdAndUpdate(postId, updateData)
UpdatePostUpdate(p) ==
    /\ freq[p].op = "updatePost" /\ freq[p].pc = "update"
    /\ posts' = [posts EXCEPT ![freq[p].target] =
                    updatePostDoc(@, freq[p].body)]
    /\ freq' = [freq EXCEPT ![p].pc = "done", ![p].status = 200,
                            ![p].body = NoDoc]
    /\ UNCHANGED <<payVars, userVars, newsVars, isActive, vreq, slots, limitVars>>

\* ------------------------------------ PATCH /forum/:id/upvote, /:id/downvote
\* No authentication.  ForumService.upvotePost and downvotePost: one await of
\* Forum.findByIdAndUpdate with $inc; the response carries post.voteCount.
Vote(p, op, by) ==
    /\ freq[p].pc = "idle"
    /\ \E id \in 1 .. MaxPosts :
          IF id \in DOMAIN posts
          THEN /\ posts[id].voteCount + by \in -MaxVotes .. MaxVotes
               /\ posts' = incVoteCount(posts, id, by)
               /\ freq' = [freq EXCEPT ![p] =
                              [FIdle EXCEPT !.op = op, !.pc = "done",
                                            !.target = id, !.status = 200,
                                            !.voteCount = posts'[id].voteCount]]
          ELSE /\ posts' = posts
               /\ freq' = [freq EXCEPT ![p] =
                              [FIdle EXCEPT !.op = op, !.pc = "done",
                                            !.target = id,
                                            !.status = notFoundError]]
    /\ UNCHANGED <<payVars, userVars, newsVars, isActive, vreq, slots, limitVars>>

UpvotePost(p) == Vote(p, "upvotePost", 1)

DownvotePost(p) == Vote(p, "downvotePost", -1)

FRespond(p) ==
    /\ freq[p].pc = "done"
    /\ freq' = [freq EXCEPT ![p] = FIdle]
    /\ UNCHANGED <<posts, payVars, userVars, newsVars, isActive, vreq, slots,
                   limitVars>>

FStep(p) ==
    \/ CreatePostAuth(p)
    \/ CreatePostSave(p)
    \/ UpdatePostAuth(p)
    \/ UpdatePostFind(p)
    \/ UpdatePostUpdate(p)
    \/ UpvotePost(p)
    \/ DownvotePost(p)
    \/ FRespond(p)

NextForum == \E p \in Procs : FStep(p)

\* Three accounts and an empty forum.
InitForum ==
    /\ classes = [c \in ClassIds |-> [bookingCount |-> 0, maxCapacity |-> 1]]
    /\ payments = <<>>
    /\ confirmed = <<>>
    /\ BookingsAtRest
    /\ users = Accounts
    /\ ureq = [p \in Procs |-> UIdle]
    /\ NewsAtRest
    /\ OthersAtRest

SpecForum == InitForum /\ [][NextForum]_vars

\* ------------------------------------------------- PATCH /users/:id/slot
\* router.use(verifyToken), validateObjectId, authorize('trainer') on the
\* caller, validate(schemas.slotCreation)
SlotRoute(p, op) ==
    /\ ureq[p].pc = "idle"
    /\ \E caller \in DOMAIN users, id \in DOMAIN users, name \in SlotNames :
          LET auth == verifyToken(users, caller)
          IN  ureq' = [ureq EXCEPT ![p] =
                  IF auth # 200 THEN UEnded(op, id, auth, "auth")
                  ELSE IF authorize(users[caller], {"trainer"}) # 200
                  THEN UEnded(op, id, 403, "auth")
                  ELSE [UIdle EXCEPT !.op = op, !.pc = "slot", !.target = id,
                                     !.body = [slotName |-> name],
                                     !.steps = <<"auth">>]]
    /\ UNCHANGED <<users, slots, payVars, newsVars, isActive, vreq, forumVars,
                   limitVars>>

AddSlotAuth(p) == SlotRoute(p, "addSlot")

\* UserService.addSlot: await User.findById(userId) and the guards on it
AddSlotFind(p) ==
    /\ ureq[p].op = "addSlot" /\ ureq[p].pc = "slot"
    /\ LET id == ureq[p].target
           code == addSlotGuard(users[id], slots[id], ureq[p].body)
       IN  /\ code = 200 =>
                Len(slots[id]) + Cardinality({q \in Procs :
                                                 /\ ureq[q].pc = "push"
                                                 /\ ureq[q].target = id})
                   < MaxSlots
           /\ ureq' = IF code # 200 THEN UFinish(p, code, "find")
                      ELSE [ureq EXCEPT ![p].pc = "push",
                                        ![p].steps = Append(@, "find")]
    /\ UNCHANGED <<users, slots, payVars, newsVars, isActive, vreq, forumVars,
                   limitVars>>

\* UserService.addSlot: await User.findByIdAndUpdate(userId,
\* { $push: { slots: slotData } })
AddSlotPush(p) ==
    /\ ureq[p].op = "addSlot" /\ ureq[p].pc = "push"
    /\ slots' = [slots EXCEPT ![ureq[p].target] =
                    Append(@, ureq[p].body.slotName)]
    /\ ureq' = UFinish(p, 200, "push")
    /\ UNCHANGED <<users, payVars, newsVars, isActive, vreq, forumVars,
                   limitVars>>

\* PATCH /users/:id/slot/remove
RemoveSlotAuth(p) == SlotRoute(p, "removeSlot")

\* UserService.removeSlot: await User.findByIdAndUpdate(userId,
\* { $pull: { slots: { slotName } } })
RemoveSlot(p) ==
    /\ ureq[p].op = "removeSlot" /\ ureq[p].pc = "slot"
    /\ slots' = [slots EXCEPT ![ureq[p].target] =
                    pull(@, ureq[p].body.slotName)]
    /\ ureq' = UFinish(p, 200, "pull")
    /\ UNCHANGED <<users, payVars, newsVars, isActive, vreq, forumVars,
                   limitVars>>

SlotStep(p) ==
    \/ AddSlotAuth(p)
    \/ AddSlotFind(p)
    \/ AddSlotPush(p)
    \/ RemoveSlotAuth(p)
    \/ RemoveSlot(p)
    \/ URespond(p)

NextSlots == \E p \in Procs : SlotStep(p)

\* The slot endpoints over three accounts, one of them a trainer.
SpecSlots == InitForum /\ [][NextSlots]_vars

\* ------------------------------------------------------------ authRateLimit
\* The middleware returned by authRateLimit, on one request: it runs to its
\* end without awaiting anything.
AuthRateLimit(k) ==
    LET now == clock
        windowStart == now - windowMs
        valid == validAttempts(attempts[k], windowStart)
    IN  /\ IF tooManyAttempts(valid, route)
           THEN /\ answer' = [key |-> k, outcome |-> "429", at |-> now]
                /\ UNCHANGED <<attempts, forwarded>>
           ELSE /\ attempts' = [attempts EXCEPT ![k] = Append(valid, now)]
                /\ forwarded' = [forwarded EXCEPT ![k] = Append(@, now)]
                /\ answer' = [key |-> k, outcome |-> "next", at |-> now]
        /\ UNCHANGED <<route, clock, payVars, userVars, newsVars, isActive, vreq,
                       slots, forumVars>>

\* Time passes between requests.
Tick ==
    /\ clock < MaxClock * ClockStep
    /\ clock' = clock + ClockStep
    /\ UNCHANGED <<route, attempts, forwarded, answer, payVars, userVars,
                   newsVars, isActive, vreq, slots, forumVars>>

NextLimit == Tick \/ \E k \in Keys : AuthRateLimit(k)

\* The limiter of the register route or of the login route, before its first
\* request.
InitLimit ==
    /\ classes = [c \in ClassIds |-> [bookingCount |-> 0, maxCapacity |-> 1]]
    /\ payments = <<>>
    /\ confirmed = <<>>
    /\ BookingsAtRest
    /\ UsersAtRest
    /\ NewsAtRest
    /\ isActive = [c \in ClassIds |-> TRUE]
    /\ vreq = [p \in Procs |-> VIdle]
    /\ slots = [k \in 1 .. MaxUsers |-> <<>>]
    /\ ForumAtRest
    /\ route \in Routes
    /\ LimiterAtRest

SpecLimit == InitLimit /\ [][NextLimit]_vars

\* ================================================================== claims
ProcessPaymentOrder == <<"capacity", "retrieve", "save", "increment">>

IsPrefix(s, t) == Len(s) <= Len(t) /\ \A k \in 1 .. Len(s) : s[k] = t[k]

\* The request whose step this is (every request step changes req at one p).
Stepped(p) == req'[p] # req[p]

\* C1: with requests served one at a time, no class that started within its
\* capacity ever holds more bookings than its maxCapacity.
C1_CapacityNeverExceeded ==
    \A c \in ClassIds : classes[c].bookingCount <= classes[c].maxCapacity

\* C2: on an existing class validateClassCapacity fails with the validation
\* error exactly when bookingCount + requested > maxCapacity and otherwise
\* succeeds; on a missing class it fails with not-found; it writes nothing.
C2_ValidateCapacityContract ==
    [][\A p \in Procs :
          (req[p].pc = "idle" /\ req'[p].op = "validateCapacity") =>
             LET c == req'[p].classId
                 n == req'[p].requested
                 over == c \in ClassIds
                         /\ classes[c].bookingCount + n > classes[c].maxCapacity
             IN  /\ (req'[p].status = notFoundError) <=> (c \notin ClassIds)
                 /\ (req'[p].status = validationError) <=> over
                 /\ (req'[p].status = 200) <=> (c \in ClassIds /\ ~over)
                 /\ UNCHANGED <<classes, payments, intents, refunds>>]_vars

\* One capacity request was refused on a full class while another, asking for
\* no more than what is left, passed.
C2_Witness ==
    \E p, q \in Procs :
       /\ req[p].op = "validateCapacity" /\ req[p].classId \in ClassIds
       /\ req[p].status = validationError /\ req[p].requested = 1
       /\ req[q].op = "validateCapacity" /\ req[q].classId \in ClassIds
       /\ req[q].status = 200

\* C3: nothing re-checks capacity after the check: a confirmation that has
\* reached its increment raises bookingCount whatever the count is by then
\* (only a failed write stops it), so two confirmations that both passed the
\* check overbook the class.
C3_IncrementNeverRejects ==
    [][\A p \in Procs :
          (req[p].op = "processPayment" /\ req[p].pc = "increment" /\ Stepped(p)) =>
             LET c == req[p].classId
             IN  \/ /\ req'[p].status = 201
                    /\ classes'[c].bookingCount = classes[c].bookingCount + 1
                 \/ /\ req'[p].status = serverError
                    /\ classes' = classes]_vars

\* Two confirmations of two succeeded intents both succeeded on a class of
\* capacity 1, which now holds 2 bookings.
C3_Witness ==
    /\ \A p \in Procs : /\ req[p].op = "processPayment" /\ req[p].pc = "done"
                        /\ req[p].status = 201
    /\ \E c \in ClassIds : classes[c].maxCapacity = 1 /\ classes[c].bookingCount = 2
    /\ Len(payments) = 2
    /\ payments[1].paymentIntentId # payments[2].paymentIntentId
    /\ \A i \in IntentIds : intents[i] = "succeeded"

\* C4 as stated: a record's status is "completed" if and only if its intent
\* had status "succeeded" when processPayment confirmed it.
C4_CompletedIffSucceeded ==
    \A k \in DOMAIN payments :
       (payments[k].paymentStatus = "completed") <=> (confirmed[k] = "succeeded")

\* C4 amended: a record exists only for an intent that had status "succeeded"
\* at confirmation, and its status is "completed" until a refund makes it
\* "refunded".
C4_CompletedOnlyIfSucceeded ==
    \A k \in DOMAIN payments :
       /\ confirmed[k] = "succeeded"
       /\ payments[k].paymentStatus \in {"completed", "refunded"}
       /\ payments[k].paymentStatus = "refunded" =>
             refunds[payments[k].paymentIntentId] > 0

\* A completed record next to a refunded one.
C4_Witness ==
    /\ Len(payments) = 2
    /\ payments[1].paymentStatus = "refunded"
    /\ payments[2].paymentStatus = "completed"

\* C5: processPayment runs capacity check, intent retrieval, record write,
\* increment in that order; a failed capacity check ends the request with the
\* validation error before the gateway is contacted, an intent that is not
\* "succeeded" ends it with the validation error (or with the error of the
\* gateway call itself); either way no record is written and no bookingCount
\* changes.
C5_ProcessPaymentFailures ==
    [][\A p \in Procs :
          (req[p].op = "processPayment" /\ Stepped(p)) =>
             LET c == req[p].classId
                 full == classes[c].bookingCount + 1 > classes[c].maxCapacity
             IN  /\ IsPrefix(req'[p].steps, ProcessPaymentOrder)
                 /\ (req[p].pc = "capacity" /\ full) =>
                       /\ req'[p].pc = "done" /\ req'[p].status = validationError
                       /\ req'[p].steps = <<"capacity">>
                       /\ UNCHANGED <<classes, payments, intents, refunds>>
                 /\ (req[p].pc = "capacity" /\ ~full) => req'[p].pc = "retrieve"
                 /\ (req[p].pc = "retrieve"
                        /\ intents[req[p].intentId] # "succeeded") =>
                       /\ req'[p].pc = "done"
                       /\ req'[p].status \in {validationError, serverError}
                       /\ UNCHANGED <<classes, payments>>
                 /\ req'[p].pc = "save" => intents[req[p].intentId] = "succeeded"]_vars

\* One confirmation was refused at the capacity check and another one because
\* its intent had not succeeded, and no record exists.
C5_Witness ==
    \E p, q \in Procs :
       /\ req[p].op = "processPayment" /\ req[p].status = validationError
       /\ req[p].steps = <<"capacity">>
       /\ req[q].op = "processPayment" /\ req[q].status = validationError
       /\ req[q].steps = <<"capacity", "retrieve">>
       /\ payments = <<>>

\* C6: a successful processPayment writes exactly one record, then raises the
\* class's bookingCount by exactly one; when the increment fails the record
\* stays as written and bookingCount stays as it was.
C6_RecordThenIncrement ==
    [][\A p \in Procs :
          (req[p].op = "processPayment" /\ Stepped(p)) =>
             LET c == req[p].classId
             IN  /\ req[p].pc = "save" =>
                       /\ classes' = classes
                       /\ \/ /\ req'[p].pc = "increment"
                             /\ Len(payments') = Len(payments) + 1
                             /\ SubSeq(payments', 1, Len(payments)) = payments
                             /\ req'[p].paymentId = Len(payments')
                             /\ payments'[Len(payments')] =
                                   [classId |-> c,
                                    paymentIntentId |-> req[p].intentId,
                                    paymentStatus |-> "completed"]
                          \/ /\ req'[p].pc = "done" /\ req'[p].status # 201
                             /\ payments' = payments
                 /\ req[p].pc = "increment" =>
                       /\ payments' = payments
                       /\ req[p].paymentId \in DOMAIN payments
                       /\ payments[req[p].paymentId].classId = c
                       /\ \/ /\ req'[p].status = 201
                             /\ classes' = [classes EXCEPT ![c].bookingCount = @ + 1]
                          \/ /\ req'[p].status # 201
                             /\ classes' = classes
                 /\ req[p].pc \notin {"save", "increment"} =>
                       /\ req'[p].status # 201
                       /\ UNCHANGED <<classes, payments>>]_vars

\* Two records exist but only one booking was counted: one confirmation
\* succeeded, the other lost its increment after its record was saved.
C6_Witness ==
    \E p, q \in Procs :
       /\ req[p].op = "processPayment" /\ req[p].status = 201
       /\ req[q].op = "processPayment" /\ req[q].status = serverError
       /\ req[q].steps = ProcessPaymentOrder
       /\ Len(payments) = 2
       /\ \A k \in DOMAIN payments : payments[k].paymentStatus = "completed"
       /\ \E c \in ClassIds : classes[c].bookingCount = 1

\* C7: refundPayment on a payment that is already "refunded" fails with the
\* conflict error (409), calls no gateway refund and leaves the record as is.
C7_AlreadyRefundedConflict ==
    [][\A p \in Procs :
          (/\ req[p].pc = "idle" /\ req'[p].op = "refundPayment"
           /\ req'[p].paymentId \in DOMAIN payments
           /\ payments[req'[p].paymentId].paymentStatus = "refunded") =>
             /\ req'[p].pc = "done"
             /\ req'[p].status = conflictError
             /\ UNCHANGED <<payments, refunds>>]_vars

\* C8: a refund calls the gateway first and then marks the record "refunded",
\* storing the refund identifier and the refund time on it.
C8_RefundStoresIdAndTime ==
    \A k \in DOMAIN payments :
       payments[k].paymentStatus = "refunded" =>
          /\ refunds[payments[k].paymentIntentId] > 0
          /\ {"refundId", "refundedAt"} \subseteq DOMAIN payments[k]

\* C9: no step of a refund request changes any class's bookingCount.
C9_RefundKeepsBookingCount ==
    [][\A p \in Procs :
          (Stepped(p) /\ "refundPayment" \in {req[p].op, req'[p].op}) =>
             \A c \in ClassIds :
                classes'[c].bookingCount = classes[c].bookingCount]_vars

\* A booking was paid, counted and refunded, and the class is still full.
C9_Witness ==
    /\ Len(payments) = 1 /\ payments[1].paymentStatus = "refunded"
    /\ \E p \in Procs : /\ req[p].op = "refundPayment" /\ req[p].status = 200
    /\ \E c \in ClassIds : /\ classes[c].maxCapacity = 1
                           /\ classes[c].bookingCount = 1
                           /\ payments[1].classId = c

IntentTaken(p) == req[p].pc = "idle" /\ req'[p].op = "createPaymentIntent"

IntentAnswered(p) ==
    req[p].op = "createPaymentIntent" /\ req[p].pc = "create" /\ req'[p].pc = "done"

\* 0.50 of the major unit, which is 50 minor units, in thousandths.
GatewayMinimum == 500

\* C11: createPaymentIntent accepts a request exactly when its amount is at
\* least 50 minor units (0.50 major), forwards every accepted amount to the
\* gateway as that amount in whole minor units, and rejects every other.
C11_AcceptsFromGatewayMinimum ==
    [][\A p \in Procs :
          /\ IntentTaken(p) =>
                (req'[p].pc = "create" <=> req'[p].amount >= GatewayMinimum)
          /\ (IntentAnswered(p) /\ req'[p].status = 200) =>
                created' = created \cup {(req[p].amount + 5) \div 10}]_vars

\* C12: a createPaymentIntent request below the minimum ends in a validation
\* error (400) and the gateway is not asked; no createPaymentIntent step, of a
\* successful request or a failed one, changes a local collection.
C12_BelowMinimumIsValidationError ==
    [][\A p \in Procs :
          /\ (IntentTaken(p) /\ req'[p].amount < GatewayMinimum) =>
                /\ req'[p].pc = "done" /\ req'[p].status = validationError
                /\ created' = created
          /\ (IntentTaken(p) \/ IntentAnswered(p)) =>
                UNCHANGED <<classes, payments, users, subscribers>>]_vars

\* C20: at most one payment record references a given payment intent, so a
\* succeeded intent confirmed a second time adds neither a record nor a booking.
C20_OneBookingPerIntent ==
    \A a, b \in DOMAIN payments :
        payments[a].paymentIntentId = payments[b].paymentIntentId => a = b
\* The calls a request has made to the gateway, and its writes to a collection.
GatewaySteps == {"create", "retrieve", "refund"}
WriteSteps == {"save", "increment", "update"}

StepsIn(r, S) == Cardinality({k \in DOMAIN r.steps : r.steps[k] \in S})

\* The request's gateway call has come back and the request has not gone on.
GatewayFailed(p) ==
    /\ req[p].pc \in {"create", "retrieve", "gateway"}
    /\ req'[p].pc = "done"
    /\ ~(req[p].op = "createPaymentIntent" /\ req'[p].status = 200)

\* C19: no createPaymentIntent, processPayment or refundPayment request calls
\* the gateway more than once, and a request whose gateway call fails ends in
\* an error having created or changed no local record.
C19_NoGatewayRetry ==
    [][\A p \in Procs :
          /\ StepsIn(req'[p], GatewaySteps) <= 1
          /\ GatewayFailed(p) =>
                /\ req'[p].status >= 400
                /\ StepsIn(req'[p], WriteSteps) = 0
                /\ UNCHANGED <<classes, payments>>]_vars

\* A refund has had its gateway call fail, after a booking was paid for and
\* recorded.
C19_Witness ==
    /\ Len(payments) > 0
    /\ \E p \in Procs :
          /\ req[p].op = "refundPayment" /\ req[p].pc = "done"
          /\ req[p].status = serverError
          /\ req[p].steps = <<"find", "refund">>
\* The user request whose step this is, and the request it has just ended.
UStepped(p) == ureq'[p] # ureq[p]

UEnds(p, op) ==
    UStepped(p) /\ ureq'[p].op = op /\ ureq'[p].pc = "done"

\* C13: applyForTrainer fails and leaves the users as they were whenever the
\* user it reads has status pending or role trainer, as does every other
\* failing application; a successful one sets the target's status to pending
\* and changes nothing else, the role included.
C13_ApplyForTrainerGuards ==
    [][\A p \in Procs :
          LET id == ureq[p].target
          IN  /\ ( /\ ureq[p].pc = "applyFind" /\ UStepped(p)
                   /\ id \in DOMAIN users
                   /\ (users[id].status = "pending" \/ users[id].role = "trainer") )
                 => /\ ureq'[p].pc = "done"
                    /\ ureq'[p].status = validationError
              /\ (UStepped(p) /\ ureq'[p].op = "apply") =>
                    IF ureq'[p].pc = "done" /\ ureq'[p].status = 200
                    THEN /\ id \in DOMAIN users
                         /\ users' = [users EXCEPT ![id].status = "pending"]
                         /\ users'[id].role = users[id].role
                    ELSE users' = users]_vars

\* An application has been refused by the service because its target's
\* application is pending.
C13_Witness ==
    \E p \in Procs :
        /\ ureq[p].op = "apply" /\ ureq[p].pc = "done"
        /\ ureq[p].status = validationError
        /\ ureq[p].steps = <<"auth", "find">>
        /\ ureq[p].target \in DOMAIN users
        /\ users[ureq[p].target].status = "pending"
        /\ users[ureq[p].target].role = "member"

\* C14: a user comes to hold role trainer only by an approval applied while
\* that user's status was pending; no registration, application, profile
\* update or rejection produces the role.
C14_TrainerOnlyByApproval ==
    [][\A k \in DOMAIN users' :
          (users'[k].role = "trainer"
             /\ (k \in DOMAIN users => users[k].role # "trainer"))
          => /\ k \in DOMAIN users
             /\ users[k].status = "pending"
             /\ \E p \in Procs : /\ ureq[p].op = "approve" /\ ureq[p].target = k
                                  /\ UEnds(p, "approve")]_vars

\* C15: an approval that passed authentication ends with the target holding
\* role trainer, status active and no feedback, every other field and user as
\* before; with an unknown id it ends in not-found and changes nothing.
C15_ApproveEffects ==
    [][\A p \in Procs :
          (UEnds(p, "approve") /\ ureq'[p].status \notin {401, 403}) =>
              LET id == ureq'[p].target
              IN  IF id \in DOMAIN users
                  THEN /\ ureq'[p].status = 200
                       /\ users' = [users EXCEPT ![id].role = "trainer",
                                                  ![id].status = "active",
                                                  ![id].feedback = NoFeedback]
                  ELSE /\ ureq'[p].status = notFoundError
                       /\ users' = users]_vars

\* C16: a rejection that passed authentication ends with the target's status
\* rejected and the given feedback stored, the role and everything else as
\* before.
C16_RejectEffects ==
    [][\A p \in Procs :
          ( /\ UEnds(p, "reject") /\ ureq'[p].status \notin {401, 403}
            /\ ureq'[p].target \in DOMAIN users ) =>
              LET id == ureq'[p].target
              IN  /\ ureq'[p].status = 200
                  /\ users' = [users EXCEPT ![id].status = "rejected",
                                             ![id].feedback = FeedbackText]
                  /\ users'[id].role = users[id].role]_vars

UniqueEmails ==
    \A i, j \in DOMAIN users : users[i].email = users[j].email => i = j

CreatingOps == {"register", "createUser", "socialLogin"}

SubscribersOf(store, email) ==
    {k \in DOMAIN store : store[k].email = toLowerCase(email)}

\* C17: every successful subscribe leaves exactly one subscriber document for
\* its email, active; one that meets an unsubscribed document reactivates that
\* document and creates none, so subscribe, unsubscribe, subscribe ends with
\* one active document; unsubscribe deactivates without deleting; and no two
\* subscriber documents ever share an email.
C17_SubscribeRoundTrip ==
    [][\A p \in Procs :
          LET e == nreq'[p].email
              before == SubscribersOf(subscribers, e)
              after == SubscribersOf(subscribers', e)
          IN  /\ \A q \in Emails : Cardinality(SubscribersOf(subscribers', q)) <= 1
              /\ ( /\ nreq[p].pc = "idle" /\ nreq'[p].op = "subscribe"
                   /\ \E k \in before : ~subscribers[k].isActive )
                 => nreq'[p].pc = "reactivate"
              /\ ( /\ nreq[p].pc \in {"create", "reactivate"}
                   /\ nreq'[p].pc = "done" /\ nreq'[p].status = 201 )
                 => /\ Cardinality(after) = 1
                    /\ \A k \in after : subscribers'[k].isActive
                    /\ nreq[p].pc = "reactivate" =>
                          Len(subscribers') = Len(subscribers)
              /\ (nreq[p].pc = "deactivate" /\ nreq'[p].pc = "done")
                 => /\ Len(subscribers') = Len(subscribers)
                    /\ \A k \in after : ~subscribers'[k].isActive]_vars

\* subscribe, unsubscribe, subscribe of one email have been served: the last
\* one reactivated the only document of that email.
C17_Witness ==
    \E p \in Procs :
        /\ nreq[p].op = "subscribe" /\ nreq[p].pc = "done"
        /\ nreq[p].status = 201
        /\ nreq[p].steps = <<"find", "reactivate">>
        /\ Cardinality(SubscribersOf(subscribers, nreq[p].email)) = 1
        /\ \A k \in SubscribersOf(subscribers, nreq[p].email) :
              subscribers[k].isActive
\* Another refund request for the same payment has had the gateway create a
\* refund and is about to mark the record.
RefundedAtGateway(p, q) ==
    /\ q # p
    /\ req[q].op = "refundPayment" /\ req[q].pc = "update"
    /\ req[q].paymentId = req[p].paymentId

\* C21: for one payment the gateway's refund operation is invoked at most once,
\* however refundPayment requests overlap: no request has the gateway create a
\* refund for a payment for which another request has had one created already.
C21_OneGatewayRefundPerPayment ==
    [][\A p \in Procs :
          (/\ req[p].op = "refundPayment" /\ req[p].pc = "gateway"
           /\ req'[p].pc = "update") =>
             ~ \E q \in Procs : RefundedAtGateway(p, q)]_vars

\* The user whose token the request carried may see the payment: an admin, or
\* the user the payment's userEmail names.
MaySee(caller, k) ==
    \/ users[caller].role = "admin"
    \/ payments[k].userEmail = users[caller].email

\* C22: GET /payments/:id answers with a payment only when the requester is an
\* admin or the user whose email is the payment's userEmail.
C22_OwnPaymentOrAdmin ==
    \A p \in Procs :
       (vreq[p].op = "getPaymentById" /\ vreq[p].pc = "done"
        /\ vreq[p].status = 200) =>
          \A k \in vreq[p].data : MaySee(vreq[p].caller, k)

\* The step answers a request with a token: register, login, socialLogin and
\* refreshToken put generateToken({ id, email, role }) of the response's user
\* in every successful response.
TokenIssued(p) ==
    /\ UStepped(p) /\ ureq'[p].pc = "done"
    /\ ureq'[p].op \in {"register", "login", "socialLogin", "refreshToken"}
    /\ ureq'[p].status \in {200, 201}

\* The request has shown control of the account its token is for: it sent the
\* account's password, or it came with a token verifyToken accepted.
ProvedControl(p) ==
    \/ /\ ureq[p].op = "login"
       /\ comparePassword(users[ureq'[p].target], ureq[p].body.password)
    \/ ureq[p].op = "refreshToken"

\* C23: a token for an account that existed before the request is issued only
\* to a request that proved control of the account, by its password or by a
\* valid token for it; naming the account's email is not enough.
C23_TokenOnlyOnProof ==
    [][\A p \in Procs :
          (TokenIssued(p) /\ ureq'[p].target \in DOMAIN users) =>
             ProvedControl(p)]_vars

\* C24: once a user's status is inactive the user stays locked out: after
\* every step verifyToken still rejects the user's token with 401, and no
\* request taken in that step is answered with a token for the user.
C24_InactiveStaysDenied ==
    [][\A k \in DOMAIN users :
          users[k].status = "inactive" =>
             /\ verifyToken(users', k) = authError
             /\ \A p \in Procs :
                   (ureq[p].pc = "idle" /\ TokenIssued(p)) =>
                      ureq'[p].target # k]_vars

\* C30: forgotPassword answers the same for an email whether or not an account
\* has it: two responses to requests that submitted the same email are equal.
C30_ForgotPasswordSameAnswer ==
    \A p, q \in Procs :
       (/\ ureq[p].op = "forgotPassword" /\ ureq[p].pc = "done"
        /\ ureq[q].op = "forgotPassword" /\ ureq[q].pc = "done"
        /\ ureq[p].email = ureq[q].email) =>
          /\ ureq[p].status = ureq[q].status
          /\ ureq[p].body = ureq[q].body

\* C25: a deactivated class takes no further bookings: no step changes its
\* bookingCount, and validate-capacity for it fails.
C25_DeactivatedClassTakesNoBooking ==
    [][\A c \in ClassIds :
          ~isActive[c] =>
             /\ classes'[c].bookingCount = classes[c].bookingCount
             /\ \A p \in Procs :
                   (/\ Stepped(p) /\ req'[p].op = "validateCapacity"
                    /\ req'[p].pc = "done" /\ req'[p].classId = c) =>
                      req'[p].status >= 400]_vars

FStepped(p) == freq'[p] # freq[p]

\* The step answers an updatePost request.
UpdateAnswered(p) ==
    FStepped(p) /\ freq'[p].op = "updatePost" /\ freq'[p].pc = "done"

\* C26: updatePost succeeds only for the post's author or an admin and then
\* leaves the post's author as it was; a rejected update leaves every post
\* unchanged.
C26_UpdateByAuthorKeepsAuthor ==
    [][\A p \in Procs :
          UpdateAnswered(p) =>
             LET id == freq'[p].target
                 user == users[freq'[p].caller]
             IN  IF freq'[p].status = 200
                 THEN /\ id \in DOMAIN posts
                      /\ posts[id].author = user.email \/ user.role = "admin"
                      /\ posts'[id].author = posts[id].author
                 ELSE posts' = posts]_vars

\* The step is a vote on post k that changes its count by the given amount
\* and answers with the count it wrote.
Voted(p, op, by) ==
    /\ FStepped(p) /\ freq'[p].op = op /\ freq'[p].status = 200
    /\ LET id == freq'[p].target
       IN  /\ posts'[id].voteCount = posts[id].voteCount + by
           /\ freq'[p].voteCount = posts'[id].voteCount
           /\ \A k \in DOMAIN posts \ {id} :
                 posts'[k].voteCount = posts[k].voteCount

\* C29: every successful upvote adds exactly one to the post's stored
\* voteCount and every successful downvote takes exactly one away, below zero
\* too, each answering with the count it wrote, and no other step changes a
\* post's voteCount: after n upvotes and m downvotes on a post that had v the
\* count is v + n - m in whatever order they came.
C29_VotesAddUp ==
    [][\/ \E p \in Procs : Voted(p, "upvotePost", 1)
       \/ \E p \in Procs : Voted(p, "downvotePost", -1)
       \/ /\ \A p \in Procs :
                ~(FStepped(p) /\ freq'[p].status = 200
                  /\ freq'[p].op \in {"upvotePost", "downvotePost"})
          /\ \A k \in DOMAIN posts :
                posts'[k].voteCount = posts[k].voteCount]_vars

\* An updated post stands at minus one: its last upvote answered 0, the
\* downvote after it answered -1.
C29_Witness ==
    /\ Len(posts) = 1 /\ posts[1].voteCount = -1 /\ posts[1].title = "t2"
    /\ \E p, q \in Procs :
          /\ freq[p].op = "upvotePost" /\ freq[p].status = 200
          /\ freq[p].voteCount = 0
          /\ freq[q].op = "downvotePost" /\ freq[q].status = 200
          /\ freq[q].voteCount = -1

\* No two of a user's slots have the same slotName.
UniqueSlotNames ==
    \A k \in DOMAIN slots :
       \A i, j \in DOMAIN slots[k] : i # j => slots[k][i] # slots[k][j]

\* C27: a trainer's slots never hold two entries with the same slotName,
\* concurrent addSlot requests included; addSlot with a name that is present
\* fails with the conflict error and addSlot on a user who is not a trainer
\* with the validation error, both leaving the slots as they were.
C27_UniqueSlotNames ==
    /\ []UniqueSlotNames
    /\ [][\A p \in Procs :
             (ureq[p].op = "addSlot" /\ ureq[p].pc = "slot" /\ UStepped(p)) =>
                LET id == ureq[p].target
                IN  /\ users[id].role # "trainer" =>
                          /\ ureq'[p].status = validationError
                          /\ slots' = slots
                    /\ (/\ users[id].role = "trainer"
                        /\ existingSlot(slots[id], ureq[p].body.slotName)) =>
                          /\ ureq'[p].status = conflictError
                          /\ slots' = slots]_vars

\* The requests with key k that the limiter let through in the windowMs up to
\* and including time t.
PassedIn(k, t) ==
    Cardinality({i \in DOMAIN forwarded[k] :
                    forwarded[k][i] > t - windowMs /\ forwarded[k][i] <= t})

\* The ends of the windows looked at: every step of the clock, up to a window
\* past the last one.
WindowEnds == {n * ClockStep : n \in 0 .. MaxClock + 3}

\* C28: in no window of windowMs has the limiter let more than maxAttempts
\* requests of one key through (3 on register, 5 on login), and a request that
\* finds maxAttempts passed requests of its key inside the window gets 429, is
\* not forwarded and is not counted.
C28_AtMostMaxAttemptsPerWindow ==
    /\ [](\A k \in Keys : \A t \in WindowEnds :
             PassedIn(k, t) <= maxAttempts(route))
    /\ [][\A k \in Keys :
             (/\ clock' = clock /\ answer'.key = k
              /\ PassedIn(k, clock) >= maxAttempts(route)) =>
                /\ answer'.outcome = "429"
                /\ UNCHANGED <<attempts, forwarded>>]_vars

\* On the login route a key has had five requests through, a window later five
\* more, and the next one is refused.
C28_Witness ==
    /\ route = "login"
    /\ answer.outcome = "429"
    /\ answer.at = windowMs
    /\ Len(forwarded[answer.key]) = 10
    /\ PassedIn(answer.key, clock) = 5

====
